---- MODULE Spec2Model ----
(***************************************************************************)
(* A model of docx-to-pdf (src/index.js): convertDocxToPdf,                *)
(* extractDocumentMetadata and smartConvertDocxToPdf, each an async        *)
(* function whose awaits are the steps of the model, running against a     *)
(* file system, a DOCX extractor (mammoth) and a headless browser          *)
(* (puppeteer).                                                            *)
(*                                                                         *)
(* Strings the code computes with (file names, paths, error messages) are  *)
(* sequences of one-character strings; a few fixed texts ("doc-convert-",  *)
(* an error's message) are single tokens of such a sequence.               *)
(***************************************************************************)
EXTENDS Integers, Sequences, FiniteSets, TLC

\* ------------------------------------------------------------------ bounds

\* Calls in flight at once in the concurrent specification.
NumCalls == 2
\* The longest PDF the renderer produces, in bytes.
MaxPdfLen == 2
\* The largest offsetHeight the page reports for a header or footer element.
MaxOffsetHeight == 1
\* The longest plain text the extractor returns.
MaxTextLen == 3002

\* ----------------------------------------------------------------- strings

Last(s) == s[Len(s)]

DropLast(s, n) == SubSeq(s, 1, Len(s) - n)

TakeLast(s, n) == SubSeq(s, Len(s) - n + 1, Len(s))

\* String.prototype.toLowerCase on one character (the /i flag of the regex).
ToLower(ch) ==
  CASE ch = "D" -> "d"
    [] ch = "O" -> "o"
    [] ch = "C" -> "c"
    [] ch = "X" -> "x"
    [] ch = "A" -> "a"
    [] OTHER -> ch

LowerAll(s) == [i \in 1..Len(s) |-> ToLower(s[i])]

DotDocx == <<".", "d", "o", "c", "x">>

DotPdf == <<".", "p", "d", "f">>

\* originalFilename.replace(/\.docx$/i, '.pdf')
ReplaceDocxSuffix(name) ==
  IF Len(name) >= Len(DotDocx) /\ LowerAll(TakeLast(name, Len(DotDocx))) = DotDocx
  THEN DropLast(name, Len(DotDocx)) \o DotPdf
  ELSE name

EndsWith(s, suffix) ==
  Len(s) >= Len(suffix) /\ TakeLast(s, Len(suffix)) = suffix

\* ------------------------------------------------------------------- paths

Sep == "/"

\* The segments of p between separators (empty ones included).
RECURSIVE SplitFrom(_, _, _)
SplitFrom(p, i, cur) ==
  IF i > Len(p) THEN <<cur>>
  ELSE IF p[i] = Sep THEN <<cur>> \o SplitFrom(p, i + 1, <<>>)
  ELSE SplitFrom(p, i + 1, Append(cur, p[i]))

Split(p) == SplitFrom(p, 1, <<>>)

\* path.posix normalizeString: drops "" and ".", resolves "..".
RECURSIVE Resolve(_, _, _)
Resolve(segs, acc, abs) ==
  IF segs = <<>> THEN acc
  ELSE LET s == Head(segs) IN
       IF s = <<>> \/ s = <<".">> THEN Resolve(Tail(segs), acc, abs)
       ELSE IF s = <<".", ".">>
       THEN IF acc # <<>> /\ Last(acc) # <<".", ".">>
            THEN Resolve(Tail(segs), DropLast(acc, 1), abs)
            ELSE IF abs THEN Resolve(Tail(segs), acc, abs)
            ELSE Resolve(Tail(segs), Append(acc, s), abs)
       ELSE Resolve(Tail(segs), Append(acc, s), abs)

RECURSIVE JoinSegs(_)
JoinSegs(segs) ==
  IF segs = <<>> THEN <<>>
  ELSE IF Len(segs) = 1 THEN Head(segs)
  ELSE Head(segs) \o <<Sep>> \o JoinSegs(Tail(segs))

\* path.normalize
Normalize(p) ==
  IF p = <<>> THEN <<".">>
  ELSE LET abs == p[1] = Sep
           trailing == Last(p) = Sep
           body == JoinSegs(Resolve(Split(p), <<>>, abs))
           body1 == IF body = <<>> /\ ~abs THEN <<".">> ELSE body
           body2 == IF body1 # <<>> /\ trailing THEN body1 \o <<Sep>> ELSE body1
       IN  IF abs THEN <<Sep>> \o body2 ELSE body2

\* path.join(a, b)
PathJoin(a, b) ==
  IF a = <<>> /\ b = <<>> THEN <<".">>
  ELSE IF a = <<>> THEN Normalize(b)
  ELSE IF b = <<>> THEN Normalize(a)
  ELSE Normalize(a \o <<Sep>> \o b)

RECURSIVE StripTrailingSep(_)
StripTrailingSep(p) ==
  IF Len(p) > 1 /\ Last(p) = Sep THEN StripTrailingSep(DropLast(p, 1)) ELSE p

\* path.basename(p)
Basename(p) ==
  LET q == StripTrailingSep(p)
  IN  IF q = <<Sep>> THEN <<>> ELSE Last(Split(q))

\* path.dirname(p)
Dirname(p) ==
  LET q == StripTrailingSep(p)
      segs == Split(q)
      d == JoinSegs(DropLast(segs, 1))
  IN  IF Len(segs) = 1 THEN <<".">>
      ELSE IF d = <<>> THEN <<Sep>>
      ELSE d

\* -------------------------------------------------------------- JS values

\* An optional value: <<>> is undefined, <<v>> is v.
None == <<>>

Some(v) == <<v>>

\* a || b on optional strings: undefined and '' are falsy.
OrElse(opt, default) ==
  IF opt # None /\ opt[1] # "" THEN opt[1] ELSE default

\* Destructuring with a default: { x = default } = obj (only undefined defaults).
Defaulted(opt, default) == IF opt = None THEN default ELSE opt[1]

\* A CSS length such as '1in' or '36px'; EmptyLength is the string ''.
Length(n, unit) == [n |-> n, unit |-> unit]

EmptyLength == [n |-> 0, unit |-> ""]

\* a || b on optional lengths.
OrElseLength(opt, default) ==
  IF opt # None /\ opt[1] # EmptyLength THEN opt[1] ELSE default

\* obj?.field on an optional object whose fields are optional.
OptField(optObj, field) == IF optObj = None THEN None ELSE optObj[1][field]

\* ---------------------------------------------------------------- inputs

\* DOCX buffers as the extractor sees them: whether the bytes are a DOCX
\* archive, the length of its plain text, and the extractor's diagnostics
\* (each message a sequence of words).
Docx(id, textLen, msgs) == [id |-> id, valid |-> TRUE, textLen |-> textLen, msgs |-> msgs]

NotDocx == [id |-> "junk", valid |-> FALSE, textLen |-> 0, msgs |-> <<>>]

HeaderMsg == [type |-> "warning", message |-> <<"unrecognised", "header", "style">>]

FooterMsg == [type |-> "warning", message |-> <<"unrecognised", "footer", "style">>]

OtherMsg == [type |-> "warning", message |-> <<"unrecognised", "paragraph", "style">>]

DocA == Docx("A", 1, <<OtherMsg>>)

DocB == Docx("B", 1, <<>>)

\* os.tmpdir()
OsTmpdir == <<"/", "t">>

\* A directory the caller created for its output (src/test.js:109-112).
OutDir == <<"/", "o">>

Filenames ==
  { <<"a", ".", "d", "o", "c", "x">>,
    <<"a", ".", "D", "O", "C", "X">>,
    <<"a", ".", "d", "o", "c">>,
    <<"s", "/", "a", ".", "d", "o", "c", "x">>,
    <<>> }

ReturnTypes == {"buffer", "file", "base64"}

\* A directory that exists under os.tmpdir().
SubDir == <<"/", "t", "/", "s">>

InitDirs == {<<Sep>>, OsTmpdir, SubDir, OutDir}

\* formatOptions as callers pass it.
NoFormatOptions == [pageConfig |-> None, preserveHeaders |-> None]

FormatOptionsSet ==
  { NoFormatOptions,
    [pageConfig |-> Some([format |-> Some("Letter"),
                          margin |-> Some([top |-> Some(Length(2, "in")), right |-> None,
                                           bottom |-> None, left |-> None])]),
     preserveHeaders |-> Some(FALSE)],
    [pageConfig |-> Some([format |-> Some(""), margin |-> None]),
     preserveHeaders |-> Some(TRUE)],
    [pageConfig |-> Some([format |-> Some("Legal"), margin |-> None]),
     preserveHeaders |-> None] }

ConvertArgs ==
  [ fn : {"convertDocxToPdf"},
    fileBuffer : {DocA, NotDocx},
    originalFilename : Filenames,
    options : [returnType : {None} \cup {Some(r) : r \in ReturnTypes \cup {"xyz"}},
               outputDir : {None, Some(OutDir)}],
    formatOptions : FormatOptionsSet ]

\* ------------------------------------------------------------------ state

VARIABLES
  args,      \* call -> the arguments the caller passes
  pc,        \* call -> the await the call is suspended at, or how it ended
  loc,       \* call -> the call's local variables
  outcome,   \* call -> what the caller's await gets: a value or a thrown error
  dirs,      \* the directories of the file system
  files,     \* the files of the file system: path -> content
  browser,   \* call -> [state, launches]: the browser process the call owns
  log,       \* console output, in order
  tempSeq    \* mkdtemp's source of fresh names

vars == <<args, pc, loc, outcome, dirs, files, browser, log, tempSeq>>

Calls == DOMAIN args

NoPath == <<>>

NoPdf == [kind |-> "none", len |-> 0]

InitLoc ==
  [ returnType |-> "", outputDir |-> NoPath, preserveHeaders |-> FALSE,
    formatOptions |-> NoFormatOptions,
    finalPageConfig |-> [format |-> "", margin |-> [top |-> EmptyLength, right |-> EmptyLength,
                                                   bottom |-> EmptyLength, left |-> EmptyLength]],
    tempDir |-> NoPath, tempFilePath |-> NoPath, tempHtmlPath |-> NoPath,
    htmlContent |-> None, messages |-> <<>>, outputPath |-> NoPath,
    page |-> None, headerHeight |-> 0, footerHeight |-> 0,
    pdfOptions |-> None, pdfBuffer |-> NoPdf, caught |-> None,
    metaTempDir |-> NoPath, metadata |-> None, metaCaught |-> None ]

InitFor(a) ==
  /\ args = a
  /\ pc = [c \in DOMAIN a |-> "ready"]
  /\ loc = [c \in DOMAIN a |-> InitLoc]
  /\ outcome = [c \in DOMAIN a |-> [kind |-> "pending"]]
  /\ dirs = InitDirs
  /\ files = <<>>
  /\ browser = [c \in DOMAIN a |-> [state |-> "none", launches |-> 0]]
  /\ log = <<>>
  /\ tempSeq = 0

\* ------------------------------------------------------------ file system

IsUnder(p, dir) ==
  \/ p = dir
  \/ /\ Len(p) > Len(dir)
     /\ SubSeq(p, 1, Len(dir) + 1) = dir \o <<Sep>>

\* fs.mkdtemp(prefix): a directory named prefix + six fresh characters.
MkdtempName(prefix, n) == prefix \o [i \in 1..n |-> "X"]

\* fs.writeFile(path, data) succeeds when the parent is a directory and the
\* path is not one.
CanWrite(path) == Dirname(path) \in dirs /\ path \notin dirs

WriteFile(path, data) == (path :> data) @@ files

\* fs.rm(dir, {recursive: true, force: true})
RmDirs(dir) == {d \in dirs : ~IsUnder(d, dir)}

RmFiles(dir) ==
  LET keep == {f \in DOMAIN files : ~IsUnder(f, dir)}
  IN  [f \in keep |-> files[f]]

\* ------------------------------------------------- convertDocxToPdf: pure

DefaultPageConfig ==
  [format |-> "A4",
   margin |-> [top |-> Length(1, "in"), right |-> Length(1, "in"),
               bottom |-> Length(1, "in"), left |-> Length(1, "in")]]

EmptyPageConfig == [format |-> None, margin |-> None]

\* Merge with provided pageConfig, ensuring all properties exist.
FinalPageConfig(pageConfig) ==
  [format |-> OrElse(pageConfig.format, DefaultPageConfig.format),
   margin |->
     [top |-> OrElseLength(OptField(pageConfig.margin, "top"), DefaultPageConfig.margin.top),
      right |-> OrElseLength(OptField(pageConfig.margin, "right"), DefaultPageConfig.margin.right),
      bottom |-> OrElseLength(OptField(pageConfig.margin, "bottom"), DefaultPageConfig.margin.bottom),
      left |-> OrElseLength(OptField(pageConfig.margin, "left"), DefaultPageConfig.margin.left)]]

\* mammoth.convertToHtml on a DOCX: its HTML and its messages.
ConvertToHtmlValue(docx) == [htmlOf |-> docx.id]

\* The @page rule of the style sheet.
Css(final) ==
  [pageSize |-> final.format,
   pageMargin |-> <<final.margin.top, final.margin.right, final.margin.bottom, final.margin.left>>]

\* The complete HTML document written to output.html.
CompleteHtml(originalFilename, css, preserveHeaders, htmlContent) ==
  [kind |-> "html", title |-> originalFilename, style |-> css,
   body |-> [header |-> preserveHeaders, content |-> htmlContent, footer |-> preserveHeaders]]

\* A variant of OutputPath that keeps the original name as it is.
OutputPathKeepsName(outputDir, originalFilename) ==
  PathJoin(outputDir, originalFilename)

\* Output PDF path.
OutputPath(outputDir, originalFilename) ==
  PathJoin(outputDir, ReplaceDocxSuffix(originalFilename))

\* The pixels added to a measured header or footer height.
HeaderFooterPad == 36

\* A variant of PdfOptions that forwards the configured top and bottom margins
\* whatever preserveHeaders is.
PdfOptionsForwardsMargins(l) ==
  [path |-> l.outputPath,
   format |-> l.finalPageConfig.format,
   margin |->
     [top |-> l.finalPageConfig.margin.top,
      right |-> l.finalPageConfig.margin.right,
      bottom |-> l.finalPageConfig.margin.bottom,
      left |-> l.finalPageConfig.margin.left],
   printBackground |-> TRUE,
   displayHeaderFooter |-> l.preserveHeaders]

\* The options object passed to page.pdf.
PdfOptions(l) ==
  [path |-> l.outputPath,
   format |-> l.finalPageConfig.format,
   margin |->
     [top |-> IF l.preserveHeaders THEN Length(l.headerHeight + HeaderFooterPad, "px")
              ELSE l.finalPageConfig.margin.top,
      right |-> l.finalPageConfig.margin.right,
      bottom |-> IF l.preserveHeaders THEN Length(l.footerHeight + HeaderFooterPad, "px")
                 ELSE l.finalPageConfig.margin.bottom,
      left |-> l.finalPageConfig.margin.left],
   printBackground |-> TRUE,
   displayHeaderFooter |-> l.preserveHeaders]

\* The PDF the browser renders from the loaded page: n bytes.
Render(page, options, n) ==
  [kind |-> "pdf", page |-> page, format |-> options.format, margin |-> options.margin,
   displayHeaderFooter |-> options.displayHeaderFooter, len |-> n]

\* pdfBuffer.toString('base64'): four characters for every three bytes.
ToBase64(buf) == [encoding |-> "base64", of |-> buf, len |-> 4 * ((buf.len + 2) \div 3)]

\* A variant of ResultFor that returns the buffer in 'base64' mode as well.
ResultForKeepsBuffer(returnType, pdfBuffer, outputPath) ==
  CASE returnType = "buffer" -> [buffer |-> pdfBuffer, filename |-> Basename(outputPath)]
    [] returnType = "file" -> [filename |-> outputPath]
    [] returnType = "base64" -> [buffer |-> pdfBuffer, base64 |-> ToBase64(pdfBuffer),
                                 filename |-> Basename(outputPath)]

\* Return according to specified type (the caller checks returnType first).
ResultFor(returnType, pdfBuffer, outputPath) ==
  CASE returnType = "buffer" -> [buffer |-> pdfBuffer, filename |-> Basename(outputPath)]
    [] returnType = "file" -> [filename |-> outputPath]
    [] returnType = "base64" -> [base64 |-> ToBase64(pdfBuffer), filename |-> Basename(outputPath)]

InvalidReturnType(returnType) == <<"Invalid returnType specified: ", returnType>>

ConversionFailed == "Failed to convert DOCX document to PDF"

\* A variant of WrapError that drops the original error's message.
WrapErrorGeneric(message) == <<ConversionFailed>>

\* The message of the error the catch block throws.
WrapError(message) == <<ConversionFailed, ": ">> \o message

\* ------------------------------------------------ convertDocxToPdf: steps

Log(level, c, what) == log' = Append(log, [level |-> level, call |-> c, what |-> what])

\* catch (error): log it and throw the wrapped error to the caller.
Throw(c, message) ==
  /\ pc' = [pc EXCEPT ![c] = "thrown"]
  /\ loc' = [loc EXCEPT ![c].caught = Some(message)]
  /\ outcome' = [outcome EXCEPT ![c] = [kind |-> "thrown", message |-> WrapError(message)]]
  /\ Log("error", c, message)

\* The synchronous head of convertDocxToPdf, up to the first await.
EnterConvert(c, options, formatOptions) ==
  /\ loc' = [loc EXCEPT ![c] =
       [@ EXCEPT !.returnType = Defaulted(options.returnType, "buffer"),
                 !.outputDir = Defaulted(options.outputDir, OsTmpdir),
                 !.formatOptions = formatOptions,
                 !.preserveHeaders = Defaulted(formatOptions.preserveHeaders, TRUE),
                 !.finalPageConfig =
                    FinalPageConfig(Defaulted(formatOptions.pageConfig, EmptyPageConfig))]]
  /\ pc' = [pc EXCEPT ![c] = "mkdtemp"]

Call(c) ==
  /\ pc[c] = "ready"
  /\ args[c].fn = "convertDocxToPdf"
  /\ EnterConvert(c, args[c].options, args[c].formatOptions)
  /\ UNCHANGED <<args, outcome, dirs, files, browser, log, tempSeq>>

\* await fs.mkdtemp(path.join(os.tmpdir(), 'doc-convert-'))
Mkdtemp(c) ==
  /\ pc[c] = "mkdtemp"
  /\ \/ LET tempDir == MkdtempName(PathJoin(OsTmpdir, <<"doc-convert-">>), tempSeq + 1)
        IN  /\ tempSeq' = tempSeq + 1
            /\ dirs' = dirs \cup {tempDir}
            /\ loc' = [loc EXCEPT ![c].tempDir = tempDir,
                                  ![c].tempFilePath = PathJoin(tempDir, <<"input.docx">>)]
            /\ pc' = [pc EXCEPT ![c] = "writeDocx"]
            /\ UNCHANGED <<args, outcome, files, browser, log>>
     \/ /\ Throw(c, <<"ENOSPC: mkdtemp">>)
        /\ UNCHANGED <<args, dirs, files, browser, tempSeq>>

\* await fs.writeFile(tempFilePath, fileBuffer)
WriteDocx(c) ==
  /\ pc[c] = "writeDocx"
  /\ \/ /\ CanWrite(loc[c].tempFilePath)
        /\ files' = WriteFile(loc[c].tempFilePath, args[c].fileBuffer)
        /\ pc' = [pc EXCEPT ![c] = "convertToHtml"]
        /\ UNCHANGED <<args, loc, outcome, dirs, browser, log, tempSeq>>
     \/ /\ Throw(c, <<"ENOSPC: write">>)
        /\ UNCHANGED <<args, dirs, files, browser, tempSeq>>

\* await mammoth.convertToHtml(mammothOptions), then the style sheet and the
\* complete HTML, up to the write of output.html.
ConvertToHtml(c) ==
  /\ pc[c] = "convertToHtml"
  /\ LET docx == files[loc[c].tempFilePath] IN
     \/ /\ docx.valid
        /\ loc' = [loc EXCEPT ![c].htmlContent = Some(ConvertToHtmlValue(docx)),
                              ![c].messages = docx.msgs,
                              ![c].tempHtmlPath = PathJoin(loc[c].tempDir, <<"output.html">>)]
        /\ IF Len(docx.msgs) > 0 THEN Log("log", c, <<"Mammoth conversion messages:">>)
           ELSE UNCHANGED log
        /\ pc' = [pc EXCEPT ![c] = "writeHtml"]
        /\ UNCHANGED <<args, outcome, dirs, files, browser, tempSeq>>
     \/ /\ ~docx.valid
        /\ Throw(c, <<"Can't find end of central directory : is this a zip file ?">>)
        /\ UNCHANGED <<args, dirs, files, browser, tempSeq>>

\* await fs.writeFile(tempHtmlPath, completeHtml), then the output path.
WriteHtml(c) ==
  /\ pc[c] = "writeHtml"
  /\ \/ /\ CanWrite(loc[c].tempHtmlPath)
        /\ files' = WriteFile(loc[c].tempHtmlPath,
                      CompleteHtml(args[c].originalFilename, Css(loc[c].finalPageConfig),
                                   loc[c].preserveHeaders, loc[c].htmlContent[1]))
        /\ loc' = [loc EXCEPT ![c].outputPath =
                      OutputPath(loc[c].outputDir, args[c].originalFilename)]
        /\ pc' = [pc EXCEPT ![c] = "launch"]
        /\ UNCHANGED <<args, outcome, dirs, browser, log, tempSeq>>
     \/ /\ Throw(c, <<"ENOSPC: write">>)
        /\ UNCHANGED <<args, dirs, files, browser, tempSeq>>

\* await puppeteer.launch(...)
Launch(c) ==
  /\ pc[c] = "launch"
  /\ \/ /\ browser' = [browser EXCEPT ![c] =
                         [state |-> "running", launches |-> @.launches + 1]]
        /\ pc' = [pc EXCEPT ![c] = "newPage"]
        /\ UNCHANGED <<args, loc, outcome, dirs, files, log, tempSeq>>
     \/ /\ Throw(c, <<"Failed to launch the browser process">>)
        /\ UNCHANGED <<args, dirs, files, browser, tempSeq>>

\* await browser.newPage()
NewPage(c) ==
  /\ pc[c] = "newPage"
  /\ \/ /\ pc' = [pc EXCEPT ![c] = "goto"]
        /\ UNCHANGED <<args, loc, outcome, dirs, files, browser, log, tempSeq>>
     \/ /\ Throw(c, <<"Protocol error: Target.createTarget">>)
        /\ UNCHANGED <<args, dirs, files, browser, tempSeq>>

\* await page.goto(`file://${tempHtmlPath}`)
PageGoto(c) ==
  /\ pc[c] = "goto"
  /\ \/ /\ loc[c].tempHtmlPath \in DOMAIN files
        /\ loc' = [loc EXCEPT ![c].page = Some(files[loc[c].tempHtmlPath])]
        /\ pc' = [pc EXCEPT ![c] = IF loc[c].preserveHeaders THEN "evalHeader" ELSE "pdf"]
        /\ UNCHANGED <<args, outcome, dirs, files, browser, log, tempSeq>>
     \/ /\ Throw(c, <<"net::ERR_FAILED">>)
        /\ UNCHANGED <<args, dirs, files, browser, tempSeq>>

\* headerHeight = await page.evaluate(...)
EvalHeader(c) ==
  /\ pc[c] = "evalHeader"
  /\ \/ \E h \in 0..MaxOffsetHeight :
          /\ loc' = [loc EXCEPT ![c].headerHeight = h]
          /\ pc' = [pc EXCEPT ![c] = "evalFooter"]
          /\ UNCHANGED <<args, outcome, dirs, files, browser, log, tempSeq>>
     \/ /\ Throw(c, <<"Execution context was destroyed">>)
        /\ UNCHANGED <<args, dirs, files, browser, tempSeq>>

\* footerHeight = await page.evaluate(...)
EvalFooter(c) ==
  /\ pc[c] = "evalFooter"
  /\ \/ \E h \in 0..MaxOffsetHeight :
          /\ loc' = [loc EXCEPT ![c].footerHeight = h]
          /\ pc' = [pc EXCEPT ![c] = "pdf"]
          /\ UNCHANGED <<args, outcome, dirs, files, browser, log, tempSeq>>
     \/ /\ Throw(c, <<"Execution context was destroyed">>)
        /\ UNCHANGED <<args, dirs, files, browser, tempSeq>>

\* await page.pdf({...}): renders the loaded page and writes it to outputPath.
PagePdf(c) ==
  /\ pc[c] = "pdf"
  /\ LET options == PdfOptions(loc[c]) IN
     \/ /\ CanWrite(options.path)
        /\ \E n \in 1..MaxPdfLen :
             files' = WriteFile(options.path, Render(loc[c].page[1], options, n))
        /\ loc' = [loc EXCEPT ![c].pdfOptions = Some(options)]
        /\ pc' = [pc EXCEPT ![c] = "close"]
        /\ UNCHANGED <<args, outcome, dirs, browser, log, tempSeq>>
     \/ /\ ~CanWrite(options.path)
        /\ Throw(c, <<"ENOENT or EISDIR: open">>)
        /\ UNCHANGED <<args, dirs, files, browser, tempSeq>>
     \/ /\ Throw(c, <<"Protocol error: Page.printToPDF">>)
        /\ UNCHANGED <<args, dirs, files, browser, tempSeq>>

\* await browser.close()
BrowserClose(c) ==
  /\ pc[c] = "close"
  /\ \/ /\ browser' = [browser EXCEPT ![c].state = "closed"]
        /\ pc' = [pc EXCEPT ![c] = "rm"]
        /\ UNCHANGED <<args, loc, outcome, dirs, files, log, tempSeq>>
     \/ /\ Throw(c, <<"Protocol error: Browser.close">>)
        /\ UNCHANGED <<args, dirs, files, browser, tempSeq>>

\* A variant of RmTemp whose catch warns and then throws the cleanup error on.
RmTempEscalates(c) ==
  /\ pc[c] = "rm"
  /\ \/ /\ dirs' = RmDirs(loc[c].tempDir)
        /\ files' = RmFiles(loc[c].tempDir)
        /\ pc' = [pc EXCEPT ![c] = "readFile"]
        /\ UNCHANGED <<log, loc, outcome>>
     \/ /\ Log("warn", c, <<"Warning: Failed to clean up temporary files">>)
        /\ pc' = [pc EXCEPT ![c] = "thrown"]
        /\ loc' = [loc EXCEPT ![c].caught = Some(<<"EBUSY: rm">>)]
        /\ outcome' = [outcome EXCEPT ![c] =
                         [kind |-> "thrown", message |-> WrapError(<<"EBUSY: rm">>)]]
        /\ UNCHANGED <<dirs, files>>
  /\ UNCHANGED <<args, browser, tempSeq>>

\* try { await fs.rm(tempDir, {recursive, force}) } catch { console.warn }
RmTemp(c) ==
  /\ pc[c] = "rm"
  /\ \/ /\ dirs' = RmDirs(loc[c].tempDir)
        /\ files' = RmFiles(loc[c].tempDir)
        /\ UNCHANGED log
     \/ /\ Log("warn", c, <<"Warning: Failed to clean up temporary files">>)
        /\ UNCHANGED <<dirs, files>>
  /\ pc' = [pc EXCEPT ![c] = "readFile"]
  /\ UNCHANGED <<args, loc, outcome, browser, tempSeq>>

\* What the tail of the try block does with the PDF it read: a result for a
\* known returnType, else the message of the error it throws.
Finish(returnType, pdfBuffer, outputPath) ==
  IF returnType \in ReturnTypes
  THEN [kind |-> "returned", value |-> ResultFor(returnType, pdfBuffer, outputPath)]
  ELSE [kind |-> "throw", message |-> InvalidReturnType(returnType)]

\* await fs.readFile(outputPath), then the return.
ReadOutput(c) ==
  /\ pc[c] = "readFile"
  /\ \/ /\ loc[c].outputPath \in DOMAIN files
        /\ LET pdfBuffer == files[loc[c].outputPath]
               end == Finish(loc[c].returnType, pdfBuffer, loc[c].outputPath)
           IN  IF end.kind = "returned"
               THEN /\ loc' = [loc EXCEPT ![c].pdfBuffer = pdfBuffer]
                    /\ outcome' = [outcome EXCEPT ![c] = end]
                    /\ pc' = [pc EXCEPT ![c] = "returned"]
                    /\ UNCHANGED log
               ELSE /\ pc' = [pc EXCEPT ![c] = "thrown"]
                    /\ loc' = [loc EXCEPT ![c].pdfBuffer = pdfBuffer,
                                          ![c].caught = Some(end.message)]
                    /\ outcome' = [outcome EXCEPT ![c] =
                                     [kind |-> "thrown", message |-> WrapError(end.message)]]
                    /\ Log("error", c, end.message)
        /\ UNCHANGED <<args, dirs, files, browser, tempSeq>>
     \/ /\ Throw(c, <<"EACCES: read">>)
        /\ UNCHANGED <<args, dirs, files, browser, tempSeq>>

\* One convertDocxToPdf call, any arguments.
Init == \E a \in [{1} -> ConvertArgs] : InitFor(a)

Next ==
  \/ \E c \in Calls : Call(c)
  \/ \E c \in Calls : Mkdtemp(c)
  \/ \E c \in Calls : WriteDocx(c)
  \/ \E c \in Calls : ConvertToHtml(c)
  \/ \E c \in Calls : WriteHtml(c)
  \/ \E c \in Calls : Launch(c)
  \/ \E c \in Calls : NewPage(c)
  \/ \E c \in Calls : PageGoto(c)
  \/ \E c \in Calls : EvalHeader(c)
  \/ \E c \in Calls : EvalFooter(c)
  \/ \E c \in Calls : PagePdf(c)
  \/ \E c \in Calls : BrowserClose(c)
  \/ \E c \in Calls : RmTemp(c)
  \/ \E c \in Calls : ReadOutput(c)

Spec == Init /\ [][Next]_vars

\* ------------------------------------------- extractDocumentMetadata: pure

\* if (contentLength > 3000)
A4Above == 3000

\* else if (contentLength > 500)
LetterAbove == 500

\* A variant of SuggestedFormat whose comparisons include the thresholds.
SuggestedFormatInclusive(contentLength) ==
  IF contentLength >= A4Above THEN "A4"
  ELSE IF contentLength >= LetterAbove THEN "Letter"
  ELSE "A4"

\* A simple heuristic to guess page size based on content length.
SuggestedFormat(contentLength) ==
  IF contentLength > A4Above THEN "A4"
  ELSE IF contentLength > LetterAbove THEN "Letter"
  ELSE "A4"

\* m.message.includes(word), a message being a sequence of words.
Includes(message, word) == \E i \in 1..Len(message) : message[i] = word

\* messages.some(m => m.message.includes(word))
SomeIncludes(messages, word) ==
  \E i \in 1..Len(messages) : Includes(messages[i].message, word)

\* mammoth.extractRawText on a DOCX: the text (its length) and the messages.
ExtractRawText(docx) == [value |-> [length |-> docx.textLen], messages |-> docx.msgs]

\* The object the try block returns.
MetadataOf(raw) ==
  [suggestedFormat |-> SuggestedFormat(raw.value.length),
   contentLength |-> raw.value.length,
   hasHeaders |-> SomeIncludes(raw.messages, "header"),
   hasFooters |-> SomeIncludes(raw.messages, "footer"),
   messages |-> raw.messages]

\* A variant of DefaultGuess that keeps no messages field.
DefaultGuessNoMessages ==
  [suggestedFormat |-> "A4", contentLength |-> 0, hasHeaders |-> FALSE, hasFooters |-> FALSE]

\* The object the catch block returns.
DefaultGuess ==
  [suggestedFormat |-> "A4", contentLength |-> 0, hasHeaders |-> FALSE,
   hasFooters |-> FALSE, messages |-> <<>>]

\* A variant of SmartFormatOptions that looks at the headers only.
SmartFormatOptionsHeadersOnly(metadata) ==
  [pageConfig |->
     Some([format |-> Some(metadata.suggestedFormat),
           margin |-> Some([top |-> Some(Length(1, "in")), right |-> Some(Length(1, "in")),
                            bottom |-> Some(Length(1, "in")), left |-> Some(Length(1, "in"))])]),
   preserveHeaders |-> Some(metadata.hasHeaders)]

\* smartConvertDocxToPdf: formatting options based on document analysis.
SmartFormatOptions(metadata) ==
  [pageConfig |->
     Some([format |-> Some(metadata.suggestedFormat),
           margin |-> Some([top |-> Some(Length(1, "in")), right |-> Some(Length(1, "in")),
                            bottom |-> Some(Length(1, "in")), left |-> Some(Length(1, "in"))])]),
   preserveHeaders |-> Some(metadata.hasHeaders \/ metadata.hasFooters)]

\* ------------------------------------------ extractDocumentMetadata: steps

\* extractDocumentMetadata returns metadata: to its caller, or into
\* smartConvertDocxToPdf, which goes on to call convertDocxToPdf.
MetaReturn(c, metadata, caught) ==
  IF args[c].fn = "extractDocumentMetadata"
  THEN /\ loc' = [loc EXCEPT ![c].metadata = Some(metadata), ![c].metaCaught = caught]
       /\ outcome' = [outcome EXCEPT ![c] = [kind |-> "returned", value |-> metadata]]
       /\ pc' = [pc EXCEPT ![c] = "returned"]
  ELSE /\ LET options == args[c].options
              formatOptions == SmartFormatOptions(metadata)
          IN  loc' = [loc EXCEPT ![c] =
                [@ EXCEPT !.metadata = Some(metadata),
                          !.metaCaught = caught,
                          !.returnType = Defaulted(options.returnType, "buffer"),
                          !.outputDir = Defaulted(options.outputDir, OsTmpdir),
                          !.formatOptions = formatOptions,
                          !.preserveHeaders = Defaulted(formatOptions.preserveHeaders, TRUE),
                          !.finalPageConfig =
                             FinalPageConfig(Defaulted(formatOptions.pageConfig, EmptyPageConfig))]]
       /\ pc' = [pc EXCEPT ![c] = "mkdtemp"]
       /\ UNCHANGED outcome

\* catch (error): log it and return the default guess.
MetaCatch(c, message) ==
  /\ MetaReturn(c, DefaultGuess, Some(message))
  /\ Log("error", c, message)

\* The call of extractDocumentMetadata, directly or from smartConvertDocxToPdf.
MetaCall(c) ==
  /\ pc[c] = "ready"
  /\ args[c].fn \in {"extractDocumentMetadata", "smartConvertDocxToPdf"}
  /\ pc' = [pc EXCEPT ![c] = "metaMkdtemp"]
  /\ UNCHANGED <<args, loc, outcome, dirs, files, browser, log, tempSeq>>

\* await fs.mkdtemp(path.join(os.tmpdir(), 'doc-meta-'))
MetaMkdtemp(c) ==
  /\ pc[c] = "metaMkdtemp"
  /\ \/ LET tempDir == MkdtempName(PathJoin(OsTmpdir, <<"doc-meta-">>), tempSeq + 1)
        IN  /\ tempSeq' = tempSeq + 1
            /\ dirs' = dirs \cup {tempDir}
            /\ loc' = [loc EXCEPT ![c].metaTempDir = tempDir]
            /\ pc' = [pc EXCEPT ![c] = "metaWrite"]
            /\ UNCHANGED <<args, outcome, files, browser, log>>
     \/ /\ MetaCatch(c, <<"ENOSPC: mkdtemp">>)
        /\ UNCHANGED <<args, dirs, files, browser, tempSeq>>

\* await fs.writeFile(tempFilePath, fileBuffer)
MetaWrite(c) ==
  /\ pc[c] = "metaWrite"
  /\ LET tempFilePath == PathJoin(loc[c].metaTempDir, <<"temp.docx">>) IN
     \/ /\ CanWrite(tempFilePath)
        /\ files' = WriteFile(tempFilePath, args[c].fileBuffer)
        /\ pc' = [pc EXCEPT ![c] = "metaExtract"]
        /\ UNCHANGED <<args, loc, outcome, dirs, browser, log, tempSeq>>
     \/ /\ MetaCatch(c, <<"ENOSPC: write">>)
        /\ UNCHANGED <<args, dirs, files, browser, tempSeq>>

\* await mammoth.extractRawText({path: tempFilePath}), then the guess.
MetaExtract(c) ==
  /\ pc[c] = "metaExtract"
  /\ LET docx == files[PathJoin(loc[c].metaTempDir, <<"temp.docx">>)] IN
     \/ /\ docx.valid
        /\ MetaReturn(c, MetadataOf(ExtractRawText(docx)), None)
        /\ UNCHANGED log
     \/ /\ ~docx.valid
        /\ MetaCatch(c, <<"Can't find end of central directory : is this a zip file ?">>)
  /\ UNCHANGED <<args, dirs, files, browser, tempSeq>>

MessageLists == {<<>>, <<OtherMsg>>, <<HeaderMsg>>, <<FooterMsg>>, <<OtherMsg, HeaderMsg, FooterMsg>>}

\* extractDocumentMetadata on a DOCX of any text length, or on other bytes.
MetadataArgs ==
  [ fn : {"extractDocumentMetadata"},
    fileBuffer : {Docx("M", n, m) : n \in 0..MaxTextLen, m \in MessageLists} \cup {NotDocx},
    originalFilename : {<<>>},
    options : {[returnType |-> None, outputDir |-> None]},
    formatOptions : {NoFormatOptions} ]

\* smartConvertDocxToPdf on DOCX texts around the thresholds, or on other bytes.
SmartArgs ==
  [ fn : {"smartConvertDocxToPdf"},
    fileBuffer : {Docx("M", n, m) :
                    n \in {0, LetterAbove, LetterAbove + 1, A4Above, A4Above + 1},
                    m \in MessageLists} \cup {NotDocx},
    originalFilename : {<<"a", ".", "d", "o", "c", "x">>},
    options : [returnType : {None, Some("file"), Some("base64")}, outputDir : {None}],
    formatOptions : {NoFormatOptions} ]

\* One extractDocumentMetadata or smartConvertDocxToPdf call.
InitMeta == \E a \in [{1} -> MetadataArgs \cup SmartArgs] : InitFor(a)

NextMeta ==
  \/ \E c \in Calls : MetaCall(c)
  \/ \E c \in Calls : MetaMkdtemp(c)
  \/ \E c \in Calls : MetaWrite(c)
  \/ \E c \in Calls : MetaExtract(c)
  \/ \E c \in Calls : Mkdtemp(c)
  \/ \E c \in Calls : WriteDocx(c)
  \/ \E c \in Calls : ConvertToHtml(c)
  \/ \E c \in Calls : WriteHtml(c)
  \/ \E c \in Calls : Launch(c)
  \/ \E c \in Calls : NewPage(c)
  \/ \E c \in Calls : PageGoto(c)
  \/ \E c \in Calls : EvalHeader(c)
  \/ \E c \in Calls : EvalFooter(c)
  \/ \E c \in Calls : PagePdf(c)
  \/ \E c \in Calls : BrowserClose(c)
  \/ \E c \in Calls : RmTemp(c)
  \/ \E c \in Calls : ReadOutput(c)

SpecMeta == InitMeta /\ [][NextMeta]_vars

\* convertDocxToPdf calls made without awaiting one another.
ConcurrentArgs ==
  [ fn : {"convertDocxToPdf"},
    fileBuffer : {DocA, DocB},
    originalFilename : {<<"a", ".", "d", "o", "c", "x">>},
    options : [returnType : {None, Some("file")}, outputDir : {None}],
    formatOptions : {NoFormatOptions} ]

InitConcurrent == \E a \in [1..NumCalls -> ConcurrentArgs] : InitFor(a)

SpecConcurrent == InitConcurrent /\ [][Next]_vars

\* ------------------------------------------------------------ properties

\* The returnType, outputDir and output path a call asks for, from its arguments.
RequestedReturnType(c) == Defaulted(args[c].options.returnType, "buffer")

RequestedOutputDir(c) == Defaulted(args[c].options.outputDir, OsTmpdir)

NameWithPdf(c) == ReplaceDocxSuffix(args[c].originalFilename)

Completed(c) == pc[c] \in {"returned", "thrown"}

Succeeded(c) == pc[c] = "returned" /\ outcome[c].kind = "returned"

Warned(c) == \E i \in 1..Len(log) : log[i].call = c /\ log[i].level = "warn"

\* C1: a call with a returnType outside {'buffer','file','base64'} that fails
\* with the invalid-returnType error has, at that moment, done no file I/O: no
\* temp directory was created, no file was written, no browser was launched
\* and nothing exists at the output path.
C1_InvalidReturnTypeBeforeIO ==
  \A c \in Calls :
    (/\ RequestedReturnType(c) \notin ReturnTypes
     /\ pc[c] = "thrown"
     /\ loc[c].caught = Some(InvalidReturnType(RequestedReturnType(c))))
    => /\ tempSeq = 0
       /\ dirs = InitDirs
       /\ DOMAIN files = {}
       /\ browser[c].launches = 0

\* C2: when a convertDocxToPdf call has completed, by a return or by a throw,
\* and no cleanup warning was logged, the temp directory it created no longer
\* exists.
C2_TempDirGoneWhenCompleted ==
  \A c \in Calls :
    (Completed(c) /\ loc[c].tempDir # NoPath /\ ~Warned(c))
    => loc[c].tempDir \notin dirs

C5_BufferAndPdfName ==
  \A c \in Calls :
    (Succeeded(c) /\ args[c].fileBuffer.valid /\ RequestedReturnType(c) = "buffer")
    => /\ outcome[c].value.buffer.len > 0
       /\ EndsWith(outcome[c].value.filename, DotPdf)

\* C6: in 'file' mode a successful call returns the full path
\* join(outputDir, name with .docx replaced by .pdf) and a non-empty PDF file
\* exists at that path; in 'buffer' and 'base64' modes the returned filename
\* is the base name of that path.
C6_FileAtReturnedPath ==
  \A c \in Calls :
    Succeeded(c) =>
      LET path == PathJoin(RequestedOutputDir(c), NameWithPdf(c))
          v == outcome[c].value
      IN  IF RequestedReturnType(c) = "file"
          THEN /\ v.filename = path
               /\ path \in DOMAIN files
               /\ files[path].kind = "pdf"
               /\ files[path].len > 0
          ELSE /\ v.filename = Last(Split(path))
               /\ \A i \in 1..Len(v.filename) : v.filename[i] # Sep

C6_Witness ==
  \E c \in Calls :
    /\ Succeeded(c)
    /\ RequestedReturnType(c) = "file"
    /\ args[c].options.outputDir = Some(OutDir)
    /\ outcome[c].value.filename \in DOMAIN files

\* C10: a failure at any stage ends the call with a thrown error whose message
\* is 'Failed to convert DOCX document to PDF' followed by the original
\* error's message, and a call that failed holds no result object.
C10_FailureIsWrappedThrow ==
  \A c \in Calls :
    /\ loc[c].caught # None =>
         /\ pc[c] = "thrown"
         /\ outcome[c].kind = "thrown"
         /\ "value" \notin DOMAIN outcome[c]
         /\ Len(outcome[c].message) > Len(loc[c].caught[1])
         /\ outcome[c].message[1] = ConversionFailed
         /\ TakeLast(outcome[c].message, Len(loc[c].caught[1])) = loc[c].caught[1]
    /\ pc[c] = "thrown" => loc[c].caught # None
    /\ outcome[c].kind = "returned" => pc[c] = "returned"

C10_Witness ==
  \E c \in Calls :
    /\ pc[c] = "thrown"
    /\ loc[c].caught = Some(<<"Protocol error: Page.printToPDF">>)
    /\ loc[c].tempDir \in dirs
    /\ outcome[c].message[1] = ConversionFailed

\* C3: the temp directory an extractDocumentMetadata call created no longer
\* exists once the call has returned its guess (computed or default), also
\* when the call was made by smartConvertDocxToPdf.
C3_MetaTempDirGone ==
  \A c \in Calls :
    (loc[c].metadata # None /\ loc[c].metaTempDir # NoPath)
    => loc[c].metaTempDir \notin dirs

\* C7: extractDocumentMetadata never throws: whenever an internal step fails
\* (temp-dir creation, temp-file write, extraction from a non-DOCX buffer) it
\* returns exactly the default guess.
C7_MetadataNeverThrows ==
  \A c \in Calls :
    /\ args[c].fn = "extractDocumentMetadata" =>
         /\ pc[c] # "thrown"
         /\ outcome[c].kind # "thrown"
         /\ pc[c] = "returned" => outcome[c].value = loc[c].metadata[1]
    /\ loc[c].metaCaught # None =>
         /\ loc[c].metadata # None
         /\ DOMAIN loc[c].metadata[1] =
              {"suggestedFormat", "contentLength", "hasHeaders", "hasFooters", "messages"}
         /\ loc[c].metadata[1].suggestedFormat = "A4"
         /\ loc[c].metadata[1].contentLength = 0
         /\ loc[c].metadata[1].hasHeaders = FALSE
         /\ loc[c].metadata[1].hasFooters = FALSE
         /\ loc[c].metadata[1].messages = <<>>
    /\ (~args[c].fileBuffer.valid /\ loc[c].metadata # None) => loc[c].metaCaught # None

C7_Witness ==
  \E c \in Calls :
    /\ args[c].fn = "extractDocumentMetadata"
    /\ ~args[c].fileBuffer.valid
    /\ pc[c] = "returned"
    /\ loc[c].metaCaught # None
    /\ outcome[c].value.contentLength = 0

\* C8: for an extracted text of length n, extractDocumentMetadata returns
\* contentLength = n and suggestedFormat 'A4' when n <= 500, 'Letter' when
\* 500 < n <= 3000, 'A4' when n > 3000.
C8_FormatByLength ==
  \A c \in Calls :
    (loc[c].metadata # None /\ loc[c].metaCaught = None) =>
      LET n == args[c].fileBuffer.textLen
          m == loc[c].metadata[1]
      IN  /\ m.contentLength = n
          /\ n <= 500 => m.suggestedFormat = "A4"
          /\ (500 < n /\ n <= 3000) => m.suggestedFormat = "Letter"
          /\ n > 3000 => m.suggestedFormat = "A4"
          /\ args[c].fn = "extractDocumentMetadata" =>
               /\ pc[c] = "returned"
               /\ outcome[c].value.contentLength = n
               /\ outcome[c].value.suggestedFormat = m.suggestedFormat

C8_Witness ==
  \E c \in Calls :
    /\ args[c].fn = "extractDocumentMetadata"
    /\ pc[c] = "returned"
    /\ loc[c].metaCaught = None
    /\ outcome[c].value.contentLength = 3001
    /\ outcome[c].value.suggestedFormat = "A4"

\* The DOCX a PDF was rendered from.
RenderedFrom(pdf) == pdf.page.body.content.htmlOf

\* C9: under every interleaving of concurrent calls, a call that succeeds
\* returns the PDF rendered from its own input buffer, and the file a
\* 'file'-mode call returned still holds that call's PDF.
C9_CallsIndependent ==
  \A c \in Calls :
    Succeeded(c) =>
      IF RequestedReturnType(c) = "buffer"
      THEN RenderedFrom(outcome[c].value.buffer) = args[c].fileBuffer.id
      ELSE RenderedFrom(files[outcome[c].value.filename]) = args[c].fileBuffer.id

\* The positions of a call inside convertDocxToPdf.
InConvert(c) ==
  pc[c] \in {"mkdtemp", "writeDocx", "convertToHtml", "writeHtml", "launch", "newPage",
             "goto", "evalHeader", "evalFooter", "pdf", "close", "rm", "readFile",
             "returned", "thrown"}

OneInch == Length(1, "in")

\* C11: once its metadata extraction has returned, smartConvertDocxToPdf runs
\* convertDocxToPdf with the caller's options and formatOptions F, where
\* F.pageConfig.format is the suggested format, all four margins are '1in'
\* and F.preserveHeaders is hasHeaders or hasFooters (format 'A4' and
\* preserveHeaders false when the extraction failed); it returns that call's
\* result, of the shape of the returnType, and throws when that call throws.
C11_SmartIsConvertWithGuess ==
  \A c \in Calls :
    (args[c].fn = "smartConvertDocxToPdf" /\ loc[c].metadata # None) =>
      LET m == loc[c].metadata[1]
          F == loc[c].formatOptions
          rt == RequestedReturnType(c)
          headers == m.hasHeaders \/ m.hasFooters
      IN  /\ InConvert(c)
          /\ F.pageConfig # None
          /\ F.pageConfig[1].format = Some(m.suggestedFormat)
          /\ F.pageConfig[1].margin =
               Some([top |-> Some(OneInch), right |-> Some(OneInch),
                     bottom |-> Some(OneInch), left |-> Some(OneInch)])
          /\ F.preserveHeaders = Some(headers)
          /\ loc[c].returnType = rt
          /\ loc[c].outputDir = RequestedOutputDir(c)
          /\ loc[c].preserveHeaders = headers
          /\ loc[c].finalPageConfig.format = m.suggestedFormat
          /\ loc[c].finalPageConfig.margin =
               [top |-> OneInch, right |-> OneInch, bottom |-> OneInch, left |-> OneInch]
          /\ loc[c].metaCaught # None =>
               /\ loc[c].finalPageConfig.format = "A4"
               /\ loc[c].preserveHeaders = FALSE
          /\ loc[c].caught # None => pc[c] = "thrown" /\ outcome[c].kind = "thrown"
          /\ pc[c] = "thrown" => outcome[c].message = WrapError(loc[c].caught[1])
          /\ Succeeded(c) =>
               /\ DOMAIN outcome[c].value =
                    (CASE rt = "buffer" -> {"buffer", "filename"}
                       [] rt = "file" -> {"filename"}
                       [] rt = "base64" -> {"base64", "filename"})
               /\ files[loc[c].outputPath].format = m.suggestedFormat
               /\ files[loc[c].outputPath].displayHeaderFooter = headers

C11_Witness ==
  \E c \in Calls :
    /\ args[c].fn = "smartConvertDocxToPdf"
    /\ Succeeded(c)
    /\ loc[c].metaCaught = None
    /\ loc[c].metadata[1].suggestedFormat = "Letter"
    /\ ~loc[c].metadata[1].hasHeaders
    /\ loc[c].metadata[1].hasFooters
    /\ RequestedReturnType(c) = "buffer"
    /\ outcome[c].value.buffer.format = "Letter"
    /\ outcome[c].value.buffer.displayHeaderFooter

\* C12: when a convertDocxToPdf call has completed, by a return or by a throw
\* after the launch (other than a failure of browser.close itself), the
\* browser it launched has been closed, and it launched at most one.
C12_BrowserClosedWhenCompleted ==
  \A c \in Calls :
    /\ browser[c].launches <= 1
    /\ (/\ Completed(c)
        /\ browser[c].launches > 0
        /\ loc[c].caught # Some(<<"Protocol error: Browser.close">>))
       => browser[c].state = "closed"

\* The page format a call asks for: the caller's when supplied (and not ''),
\* else 'A4'.
SuppliedFormat(c) ==
  LET config == args[c].formatOptions.pageConfig
  IN  IF config # None /\ config[1].format # None /\ config[1].format[1] # ""
      THEN config[1].format[1]
      ELSE "A4"

\* A margin a call asks for: the caller's when supplied (and not ''), else '1in'.
SuppliedMargin(c, side) ==
  LET config == args[c].formatOptions.pageConfig
  IN  IF /\ config # None
         /\ config[1].margin # None
         /\ config[1].margin[1][side] # None
         /\ config[1].margin[1][side][1] # EmptyLength
      THEN config[1].margin[1][side][1]
      ELSE OneInch

\* The format and margins of the @page rule of the page a call loaded.
PageRule(c) == loc[c].page[1].style

\* The @page rule is the final page configuration.
PageRuleIsFinal(c) ==
  /\ PageRule(c).pageSize = SuppliedFormat(c)
  /\ PageRule(c).pageMargin =
       <<SuppliedMargin(c, "top"), SuppliedMargin(c, "right"),
         SuppliedMargin(c, "bottom"), SuppliedMargin(c, "left")>>

\* C13 as stated: the format and all four margins passed to page.pdf equal
\* those of the @page rule (the final page configuration), whatever
\* preserveHeaders is.
C13_PdfMarginsEqualPageRule ==
  \A c \in Calls :
    (args[c].fn = "convertDocxToPdf" /\ loc[c].pdfOptions # None) =>
      LET o == loc[c].pdfOptions[1] IN
      /\ PageRuleIsFinal(c)
      /\ o.format = PageRule(c).pageSize
      /\ <<o.margin.top, o.margin.right, o.margin.bottom, o.margin.left>> =
           PageRule(c).pageMargin

\* C13 as amended: the format and the right and left margins passed to
\* page.pdf always equal those of the @page rule (the final page
\* configuration); the top and bottom margins equal them when preserveHeaders
\* is false, and are (headerHeight + 36)px and (footerHeight + 36)px when
\* preserveHeaders is true, its default included.
C13_PdfMarginsAmended ==
  \A c \in Calls :
    (args[c].fn = "convertDocxToPdf" /\ loc[c].pdfOptions # None) =>
      LET o == loc[c].pdfOptions[1]
          headers == IF args[c].formatOptions.preserveHeaders = None THEN TRUE
                     ELSE args[c].formatOptions.preserveHeaders[1]
      IN  /\ PageRuleIsFinal(c)
          /\ o.format = PageRule(c).pageSize
          /\ o.margin.right = PageRule(c).pageMargin[2]
          /\ o.margin.left = PageRule(c).pageMargin[4]
          /\ o.displayHeaderFooter = headers
          /\ IF headers
             THEN /\ o.margin.top = [n |-> loc[c].headerHeight + 36, unit |-> "px"]
                  /\ o.margin.bottom = [n |-> loc[c].footerHeight + 36, unit |-> "px"]
             ELSE /\ o.margin.top = PageRule(c).pageMargin[1]
                  /\ o.margin.bottom = PageRule(c).pageMargin[3]

C13_Witness ==
  \E c \in Calls :
    /\ args[c].fn = "convertDocxToPdf"
    /\ args[c].formatOptions.preserveHeaders = None
    /\ loc[c].pdfOptions # None
    /\ loc[c].headerHeight = 1
    /\ loc[c].pdfOptions[1].margin.top = [n |-> 37, unit |-> "px"]
    /\ PageRule(c).pageMargin[1] = OneInch
    /\ loc[c].pdfOptions[1].format = "Legal"

\* C14: a failure to remove the temp directory is never escalated: the call
\* logs a warning and goes on to read the output PDF; the failure is never
\* the error the call throws, and a call that then completes without another
\* failure returns, for its returnType, the result built from the PDF at the
\* output path, as after a successful removal.
C14_CleanupFailureNotEscalated ==
  \A c \in Calls :
    Warned(c) =>
      LET rt == RequestedReturnType(c)
          path == loc[c].outputPath
      IN  /\ pc[c] \in {"readFile", "returned", "thrown"}
          /\ loc[c].tempDir \in dirs
          /\ path \in DOMAIN files
          /\ pc[c] = "readFile" => loc[c].caught = None /\ outcome[c].kind = "pending"
          /\ pc[c] = "thrown" =>
               \/ loc[c].caught = Some(<<"EACCES: read">>)
               \/ rt \notin ReturnTypes /\ loc[c].caught = Some(InvalidReturnType(rt))
          /\ pc[c] = "returned" =>
               /\ outcome[c].kind = "returned"
               /\ rt = "buffer" => outcome[c].value =
                    [buffer |-> files[path], filename |-> Last(Split(path))]
               /\ rt = "file" => outcome[c].value = [filename |-> path]
               /\ rt = "base64" =>
                    /\ DOMAIN outcome[c].value = {"base64", "filename"}
                    /\ outcome[c].value.base64.of = files[path]
                    /\ outcome[c].value.filename = Last(Split(path))

C14_Witness ==
  \E c \in Calls :
    /\ Warned(c)
    /\ Succeeded(c)
    /\ loc[c].tempDir \in dirs
    /\ RequestedReturnType(c) = "base64"
    /\ outcome[c].value.base64.of = files[loc[c].outputPath]

====
